---- MODULE Spec2Model ----
(***************************************************************************)
(* Model of ollama-distributed/scripts/generate-performance-charts.py:     *)
(* the benchmark comparison, the performance score and the summary counts  *)
(* computed by main() from a current and a baseline report.                *)
(*                                                                         *)
(* Python values are modelled as follows.                                  *)
(*   - a dict is a TLA+ record/function whose DOMAIN is the set of keys    *)
(*     that are present (an absent key is absent from the DOMAIN);         *)
(*   - a JSON number is [num |-> n] with n an integer, a JSON string in a  *)
(*     numeric position is [str |-> s];                                    *)
(*   - a benchmark name is a sequence of tokens; the token "Benchmark"     *)
(*     stands for that substring, every other token for text that does not *)
(*     contain it;                                                         *)
(*   - a float result is the exact rational [num |-> n, den |-> d], d > 0  *)
(*     (for integer timings below 2^50 the double computed by the script   *)
(*     compares with 5, -5, 0 and 100 exactly as the rational does);       *)
(*   - a raised exception is the "raised" field of an operator's result;   *)
(*     an uncaught one ends the process (pc = "crashed").                  *)
(* Figure rendering (matplotlib) is not modelled.                          *)
(***************************************************************************)
EXTENDS Integers, Sequences, FiniteSets, TLC

VARIABLES pc, files, current_data, baseline_data, chart, trend, summary, error

vars == <<pc, files, current_data, baseline_data, chart, trend, summary, error>>

-----------------------------------------------------------------------------
(* Bounds of the model *)

MaxLen == 2

-----------------------------------------------------------------------------
(* Python values *)

Num(n) == [num |-> n]

Str(s) == [str |-> s]

IsNumber(v) == "num" \in DOMAIN v

EmptyDict == [k \in {} |-> 0]

NoneValue == [type |-> "NoneType"]

DictValue(d) == [type |-> "dict", value |-> d]

Rat(n, d) == [num |-> n, den |-> d]

RatLt(r, s) == r.num * s.den < s.num * r.den

RatEq(r, s) == r.num * s.den = s.num * r.den

RatLe(r, s) == RatLt(r, s) \/ RatEq(r, s)

\* dict.get(key, default)
Get(d, key, default) == IF key \in DOMAIN d THEN d[key] ELSE default

\* data.get exists for a dict; on None it raises AttributeError
HasGet(v) == v.type = "dict"

\* every object counted as true
TruthyAlways(v) == TRUE

\* truth value of a Python object: None and the empty dict are false
Truthy(v) == v.type = "dict" /\ DOMAIN v.value # {}

\* x > 0 for a JSON value: "True", "False", or "TypeError" for a non-number
GtZero(v) == IF ~IsNumber(v) THEN "TypeError"
             ELSE IF v.num > 0 THEN "True" ELSE "False"

\* str.replace('Benchmark', '')
RECURSIVE ReplaceBenchmark(_)
ReplaceBenchmark(name) ==
    IF name = <<>> THEN <<>>
    ELSE IF Head(name) = "Benchmark" THEN ReplaceBenchmark(Tail(name))
    ELSE <<Head(name)>> \o ReplaceBenchmark(Tail(name))

-----------------------------------------------------------------------------
(* load_performance_data *)

load_performance_data(file) ==
    IF file.content = "json" THEN file.value ELSE NoneValue

-----------------------------------------------------------------------------
(* The comparison of create_benchmark_comparison_chart and                 *)
(* create_summary_report                                                   *)

\* BuildLookup keeping the first entry of a name instead of the last
RECURSIVE BuildLookupFirstWins(_, _, _)
BuildLookupFirstWins(benchmarks, i, lookup) ==
    IF i > Len(benchmarks) THEN [raised |-> "none", value |-> lookup]
    ELSE IF "name" \notin DOMAIN benchmarks[i]
         THEN [raised |-> "KeyError", value |-> lookup]
    ELSE BuildLookupFirstWins(benchmarks, i + 1,
            [n \in DOMAIN lookup \cup {benchmarks[i].name} |->
                IF n \in DOMAIN lookup THEN lookup[n] ELSE benchmarks[i]])

\* {b['name']: b for b in baseline_benchmarks}, entries [i..] added to lookup
RECURSIVE BuildLookup(_, _, _)
BuildLookup(benchmarks, i, lookup) ==
    IF i > Len(benchmarks) THEN [raised |-> "none", value |-> lookup]
    ELSE IF "name" \notin DOMAIN benchmarks[i]
         THEN [raised |-> "KeyError", value |-> lookup]
    ELSE BuildLookup(benchmarks, i + 1,
            [n \in DOMAIN lookup \cup {benchmarks[i].name} |->
                IF n = benchmarks[i].name THEN benchmarks[i] ELSE lookup[n]])

\* a name with its letters in lower case
LowerName(name) == [k \in DOMAIN name |-> IF name[k] = "X" THEN "x" ELSE name[k]]

\* baseline_lookup_of with the keys folded to lower case
baseline_lookup_of_lower_case(baseline_benchmarks) ==
    LET l == BuildLookup(baseline_benchmarks, 1, EmptyDict) IN
    IF l.raised # "none" THEN l
    ELSE [raised |-> "none",
          value |-> [n \in {LowerName(m) : m \in DOMAIN l.value} |->
                        l.value[CHOOSE m \in DOMAIN l.value : LowerName(m) = n]]]

\* baseline_lookup_of that also registers each entry under its short name
baseline_lookup_of_with_short_names(baseline_benchmarks) ==
    LET l == BuildLookup(baseline_benchmarks, 1, EmptyDict) IN
    IF l.raised # "none" THEN l
    ELSE [raised |-> "none",
          value |-> [n \in DOMAIN l.value
                             \cup {ReplaceBenchmark(m) : m \in DOMAIN l.value} |->
                        IF n \in DOMAIN l.value THEN l.value[n]
                        ELSE l.value[CHOOSE m \in DOMAIN l.value :
                                        ReplaceBenchmark(m) = n]]]

baseline_lookup_of(baseline_benchmarks) ==
    BuildLookup(baseline_benchmarks, 1, EmptyDict)

\* name in baseline_lookup
NameInLookup(name, lookup) == name \in DOMAIN lookup

\* PositiveGuard without the test of baseline_ns
PositiveGuardCurrentOnly(baseline_ns, current_ns) ==
    IF ~IsNumber(baseline_ns) THEN "TypeError" ELSE GtZero(current_ns)

\* baseline_ns > 0 and current_ns > 0, evaluated left to right
PositiveGuard(baseline_ns, current_ns) ==
    IF GtZero(baseline_ns) # "True" THEN GtZero(baseline_ns)
    ELSE GtZero(current_ns)

\* ImprovementPct relative to current_ns instead of baseline_ns
ImprovementPctOverCurrent(current_ns, baseline_ns) ==
    Rat((baseline_ns - current_ns) * 100, current_ns)

\* ((baseline_ns - current_ns) / baseline_ns) * 100
ImprovementPct(current_ns, baseline_ns) ==
    Rat((baseline_ns - current_ns) * 100, baseline_ns)

\* ((current_ns - baseline_ns) / baseline_ns) * 100
ChangePct(current_ns, baseline_ns) ==
    Rat((current_ns - baseline_ns) * 100, baseline_ns)

\* Classify with the regression bound included (change >= 5)
ClassifyRegressionInclusive(change) ==
    IF RatLe(Rat(5, 1), change) THEN "Regression"
    ELSE IF RatLt(change, Rat(-5, 1)) THEN "Improvement"
    ELSE "Unchanged"

\* Classify with the improvement bound included (change <= -5)
ClassifyImprovementInclusive(change) ==
    IF RatLt(Rat(5, 1), change) THEN "Regression"
    ELSE IF RatLe(change, Rat(-5, 1)) THEN "Improvement"
    ELSE "Unchanged"

\* if change > 5: regressions += 1 / elif change < -5: improvements += 1
Classify(change) ==
    IF RatLt(Rat(5, 1), change) THEN "Regression"
    ELSE IF RatLt(change, Rat(-5, 1)) THEN "Improvement"
    ELSE "Unchanged"

EmptyChart == [benchmark_names |-> <<>>, current_values |-> <<>>,
               baseline_values |-> <<>>, improvements |-> <<>>]

\* the four lists kept between invocations instead of being created anew
SharedChartLists == chart

\* benchmark_names = [], current_values = [], baseline_values = [],
\* improvements = []: the lists are created at every invocation
FreshChartLists == EmptyChart

\* ChartLoop inserting each entry at the front of the lists
RECURSIVE ChartLoopPrepending(_, _, _, _)
ChartLoopPrepending(current_benchmarks, baseline_lookup, i, acc) ==
    IF i > Len(current_benchmarks) THEN [raised |-> "none", value |-> acc]
    ELSE LET current_bench == current_benchmarks[i] IN
      IF "name" \notin DOMAIN current_bench
      THEN [raised |-> "KeyError", value |-> acc]
      ELSE LET name == current_bench.name IN
        IF ~NameInLookup(name, baseline_lookup)
        THEN ChartLoopPrepending(current_benchmarks, baseline_lookup, i + 1, acc)
        ELSE LET baseline_bench == baseline_lookup[name]
                 current_ns == Get(current_bench, "ns_per_op", Num(0))
                 baseline_ns == Get(baseline_bench, "ns_per_op", Num(0))
                 guard == PositiveGuard(baseline_ns, current_ns)
             IN IF guard = "TypeError"
                THEN [raised |-> "TypeError", value |-> acc]
                ELSE IF guard = "False"
                THEN ChartLoopPrepending(current_benchmarks, baseline_lookup, i + 1, acc)
                ELSE IF baseline_ns.num = 0
                THEN [raised |-> "ZeroDivisionError", value |-> acc]
                ELSE ChartLoopPrepending(current_benchmarks, baseline_lookup, i + 1,
                       [benchmark_names |->
                            <<ReplaceBenchmark(name)>> \o acc.benchmark_names,
                        current_values |->
                            <<current_ns.num>> \o acc.current_values,
                        baseline_values |->
                            <<baseline_ns.num>> \o acc.baseline_values,
                        improvements |->
                            <<ImprovementPct(current_ns.num, baseline_ns.num)>>
                                \o acc.improvements])

\* the for loop of create_benchmark_comparison_chart from entry i on
RECURSIVE ChartLoop(_, _, _, _)
ChartLoop(current_benchmarks, baseline_lookup, i, acc) ==
    IF i > Len(current_benchmarks) THEN [raised |-> "none", value |-> acc]
    ELSE LET current_bench == current_benchmarks[i] IN
      IF "name" \notin DOMAIN current_bench
      THEN [raised |-> "KeyError", value |-> acc]
      ELSE LET name == current_bench.name IN
        IF ~NameInLookup(name, baseline_lookup)
        THEN ChartLoop(current_benchmarks, baseline_lookup, i + 1, acc)
        ELSE LET baseline_bench == baseline_lookup[name]
                 current_ns == Get(current_bench, "ns_per_op", Num(0))
                 baseline_ns == Get(baseline_bench, "ns_per_op", Num(0))
                 guard == PositiveGuard(baseline_ns, current_ns)
             IN IF guard = "TypeError"
                THEN [raised |-> "TypeError", value |-> acc]
                ELSE IF guard = "False"
                THEN ChartLoop(current_benchmarks, baseline_lookup, i + 1, acc)
                ELSE IF baseline_ns.num = 0
                THEN [raised |-> "ZeroDivisionError", value |-> acc]
                ELSE ChartLoop(current_benchmarks, baseline_lookup, i + 1,
                       [benchmark_names |->
                            Append(acc.benchmark_names, ReplaceBenchmark(name)),
                        current_values |->
                            Append(acc.current_values, current_ns.num),
                        baseline_values |->
                            Append(acc.baseline_values, baseline_ns.num),
                        improvements |->
                            Append(acc.improvements,
                                   ImprovementPct(current_ns.num, baseline_ns.num))])

create_benchmark_comparison_chart(current, baseline) ==
    LET current_benchmarks == Get(current, "benchmarks", <<>>)
        baseline_benchmarks == Get(baseline, "benchmarks", <<>>)
        lookup == baseline_lookup_of(baseline_benchmarks)
    IN IF lookup.raised # "none"
       THEN [raised |-> lookup.raised, value |-> EmptyChart]
       ELSE LET r == ChartLoop(current_benchmarks, lookup.value, 1, FreshChartLists)
            IN IF r.raised # "none"
               THEN [raised |-> r.raised, value |-> EmptyChart]
               ELSE r

\* regressions = 0, improvements = 0 at every invocation
FreshCounters == [regressions |-> 0, improvements |-> 0]

\* the for loop of create_summary_report from entry i on
RECURSIVE SummaryLoop(_, _, _, _)
SummaryLoop(current_benchmarks, baseline_lookup, i, acc) ==
    IF i > Len(current_benchmarks) THEN [raised |-> "none", value |-> acc]
    ELSE LET current_bench == current_benchmarks[i] IN
      IF "name" \notin DOMAIN current_bench
      THEN [raised |-> "KeyError", value |-> acc]
      ELSE LET name == current_bench.name IN
        IF ~NameInLookup(name, baseline_lookup)
        THEN SummaryLoop(current_benchmarks, baseline_lookup, i + 1, acc)
        ELSE LET baseline_bench == baseline_lookup[name]
                 current_ns == Get(current_bench, "ns_per_op", Num(0))
                 baseline_ns == Get(baseline_bench, "ns_per_op", Num(0))
                 guard == PositiveGuard(baseline_ns, current_ns)
             IN IF guard = "TypeError"
                THEN [raised |-> "TypeError", value |-> acc]
                ELSE IF guard = "False"
                THEN SummaryLoop(current_benchmarks, baseline_lookup, i + 1, acc)
                ELSE IF baseline_ns.num = 0
                THEN [raised |-> "ZeroDivisionError", value |-> acc]
                ELSE LET class == Classify(ChangePct(current_ns.num, baseline_ns.num))
                     IN SummaryLoop(current_benchmarks, baseline_lookup, i + 1,
                          [regressions |-> acc.regressions +
                               (IF class = "Regression" THEN 1 ELSE 0),
                           improvements |-> acc.improvements +
                               (IF class = "Improvement" THEN 1 ELSE 0)])

-----------------------------------------------------------------------------
(* calculate_performance_score *)

\* NsValues with the filter ns_per_op >= 0
RECURSIVE NsValuesNonNegative(_, _, _)
NsValuesNonNegative(benchmarks, i, acc) ==
    IF i > Len(benchmarks) THEN [raised |-> "none", value |-> acc]
    ELSE LET ns == Get(benchmarks[i], "ns_per_op", Num(0)) IN
      IF GtZero(ns) = "TypeError" THEN [raised |-> "TypeError", value |-> acc]
      ELSE IF ns.num >= 0
           THEN NsValuesNonNegative(benchmarks, i + 1, Append(acc, ns.num))
           ELSE NsValuesNonNegative(benchmarks, i + 1, acc)

\* NsValues without the filter
RECURSIVE NsValuesUnfiltered(_, _, _)
NsValuesUnfiltered(benchmarks, i, acc) ==
    IF i > Len(benchmarks) THEN [raised |-> "none", value |-> acc]
    ELSE LET ns == Get(benchmarks[i], "ns_per_op", Num(0)) IN
      IF GtZero(ns) = "TypeError" THEN [raised |-> "TypeError", value |-> acc]
      ELSE NsValuesUnfiltered(benchmarks, i + 1, Append(acc, ns.num))

\* [b.get('ns_per_op', 0) for b in benchmarks if b.get('ns_per_op', 0) > 0]
RECURSIVE NsValues(_, _, _)
NsValues(benchmarks, i, acc) ==
    IF i > Len(benchmarks) THEN [raised |-> "none", value |-> acc]
    ELSE LET ns == Get(benchmarks[i], "ns_per_op", Num(0)) IN
      IF GtZero(ns) = "TypeError" THEN [raised |-> "TypeError", value |-> acc]
      ELSE IF GtZero(ns) = "True"
           THEN NsValues(benchmarks, i + 1, Append(acc, ns.num))
           ELSE NsValues(benchmarks, i + 1, acc)

RECURSIVE Sum(_)
Sum(s) == IF s = <<>> THEN 0 ELSE Head(s) + Sum(Tail(s))

\* avg_ns = sum(ns_values) / len(ns_values)
AvgNs(ns_values) == Rat(Sum(ns_values), Len(ns_values))

\* ScoreOfAvg without max(0, ...)
ScoreOfAvgNoFloor(avg_ns) ==
    LET raw == Rat(100 * 1000 * avg_ns.den - avg_ns.num, 1000 * avg_ns.den)
    IN IF RatLt(Rat(100, 1), raw) THEN Rat(100, 1) ELSE raw

\* min(100, max(0, 100 - (avg_ns / 1000)))
ScoreOfAvg(avg_ns) ==
    LET raw == Rat(100 * 1000 * avg_ns.den - avg_ns.num, 1000 * avg_ns.den)
        score == IF RatLt(Rat(0, 1), raw) THEN raw ELSE Rat(0, 1)
    IN IF RatLt(Rat(100, 1), score) THEN Rat(100, 1) ELSE score

calculate_performance_score(data) ==
    LET benchmarks == Get(data, "benchmarks", <<>>) IN
    IF benchmarks = <<>> THEN [raised |-> "none", value |-> Rat(0, 1)]
    ELSE LET ns_values == NsValues(benchmarks, 1, <<>>) IN
      IF ns_values.raised # "none"
      THEN [raised |-> ns_values.raised, value |-> Rat(0, 1)]
      ELSE IF ns_values.value = <<>>
      THEN [raised |-> "none", value |-> Rat(0, 1)]
      ELSE IF Len(ns_values.value) = 0
      THEN [raised |-> "ZeroDivisionError", value |-> Rat(0, 1)]
      ELSE [raised |-> "none", value |-> ScoreOfAvg(AvgNs(ns_values.value))]

\* the two calls calculate_performance_score(current_data) and
\* calculate_performance_score(baseline_data), in that order
Scores(current, baseline) ==
    LET current_score == calculate_performance_score(current)
        baseline_score == calculate_performance_score(baseline)
    IN IF current_score.raised # "none"
       THEN [raised |-> current_score.raised, current_score |-> Rat(0, 1),
             baseline_score |-> Rat(0, 1)]
       ELSE [raised |-> baseline_score.raised,
             current_score |-> current_score.value,
             baseline_score |-> IF baseline_score.raised = "none"
                                THEN baseline_score.value ELSE Rat(0, 1)]

-----------------------------------------------------------------------------
(* create_summary_report *)

\* TotalBenchmarks counting only the entries with a positive timing
TotalBenchmarksWithTiming(current_benchmarks) ==
    Cardinality({i \in 1..Len(current_benchmarks) :
                    GtZero(Get(current_benchmarks[i], "ns_per_op", Num(0))) = "True"})

\* TotalBenchmarks counting each name once
TotalBenchmarksDistinctNames(current_benchmarks) ==
    Cardinality({Get(current_benchmarks[i], "name", <<>>) :
                    i \in 1..Len(current_benchmarks)})

\* total_benchmarks = len(current_benchmarks)
TotalBenchmarks(current_benchmarks) == Len(current_benchmarks)

EmptySummary == [total_benchmarks |-> 0, regressions |-> 0, improvements |-> 0,
                 sizes |-> <<0, 0, 0>>,
                 current_score |-> Rat(0, 1), baseline_score |-> Rat(0, 1)]

create_summary_report(current, baseline) ==
    LET current_benchmarks == Get(current, "benchmarks", <<>>)
        baseline_benchmarks == Get(baseline, "benchmarks", <<>>)
        total_benchmarks == TotalBenchmarks(current_benchmarks)
        lookup == baseline_lookup_of(baseline_benchmarks)
    IN IF lookup.raised # "none"
       THEN [raised |-> lookup.raised, value |-> EmptySummary]
       ELSE LET r == SummaryLoop(current_benchmarks, lookup.value, 1, FreshCounters)
            IN IF r.raised # "none"
               THEN [raised |-> r.raised, value |-> EmptySummary]
               ELSE LET s == Scores(current, baseline) IN
                 IF s.raised # "none"
                 THEN [raised |-> s.raised, value |-> EmptySummary]
                 ELSE [raised |-> "none",
                       value |-> [total_benchmarks |-> total_benchmarks,
                                  regressions |-> r.value.regressions,
                                  improvements |-> r.value.improvements,
                                  sizes |-> <<r.value.regressions,
                                              r.value.improvements,
                                              total_benchmarks
                                                - r.value.regressions
                                                - r.value.improvements>>,
                                  current_score |-> s.current_score,
                                  baseline_score |-> s.baseline_score]]

-----------------------------------------------------------------------------
(* Input documents *)

BenchmarkEntry(name, ns) == [name |-> name, ns_per_op |-> ns]

\* the lists of at most MaxLen entries
RECURSIVE SeqsUpTo(_, _)
SeqsUpTo(entries, n) ==
    IF n = 0 THEN {<<>>}
    ELSE LET shorter == SeqsUpTo(entries, n - 1)
         IN shorter \cup {Append(s, e) : s \in {t \in shorter : Len(t) = n - 1},
                                         e \in entries}

\* report documents: {}, one without the benchmarks key, and one per list
Documents(entries) ==
    {EmptyDict, [performance_stats |-> EmptyDict]}
      \cup {[benchmarks |-> s] : s \in SeqsUpTo(entries, MaxLen)}

\* a file is missing, unreadable or malformed ("bad"), or holds a document
Files(entries) ==
    {[content |-> "bad"]}
      \cup {[content |-> "json", value |-> DictValue(d)] : d \in Documents(entries)}

\* timings around the 5% threshold
CurrentThresholdEntries ==
    {BenchmarkEntry(n, Num(v)) : n \in {<<"A">>, <<"B">>}, v \in {0, 95, 100, 210}}

BaselineThresholdEntries ==
    {BenchmarkEntry(n, Num(v)) : n \in {<<"A">>, <<"B">>}, v \in {0, 100, 200}}

\* names that differ in case, in trailing blanks, or by the Benchmark prefix
NameEntries ==
    {BenchmarkEntry(n, Num(v)) : n \in {<<"X">>, <<"Benchmark", "X">>},
                                 v \in {100, 200}}
      \cup {BenchmarkEntry(n, Num(100)) : n \in {<<"x">>, <<"X", " ">>}}

\* degenerate and large timings of one benchmark
ScoreEntries ==
    {BenchmarkEntry(<<"A">>, Num(v)) : v \in {-1, 0, 100, 150000, 250000}}
      \cup {[name |-> <<"A">>]}

\* entries without a name or with a non-numeric timing
MalformedEntries ==
    {BenchmarkEntry(n, Num(v)) : n \in {<<"A">>, <<"B">>}, v \in {0, 100}}
      \cup {[ns_per_op |-> Num(100)], BenchmarkEntry(<<"A">>, Str("fast")),
            BenchmarkEntry(<<"B">>, Str("fast"))}

-----------------------------------------------------------------------------
(* main *)

InitWith(current_files, baseline_files) ==
    /\ pc = "load"
    /\ files \in [current : current_files, baseline : baseline_files]
    /\ current_data = NoneValue
    /\ baseline_data = NoneValue
    /\ chart = EmptyChart
    /\ trend = [current_score |-> Rat(0, 1), baseline_score |-> Rat(0, 1)]
    /\ summary = EmptySummary
    /\ error = "none"

Init == InitWith(Files(CurrentThresholdEntries), Files(BaselineThresholdEntries))

InitNames == InitWith(Files(NameEntries), Files(NameEntries))

InitScore == InitWith(Files(ScoreEntries), Files(ScoreEntries))

InitMalformed == InitWith(Files(MalformedEntries), Files(MalformedEntries))

\* current_data = load_performance_data(args.current); baseline likewise
MainLoad ==
    /\ pc = "load"
    /\ current_data' = load_performance_data(files.current)
    /\ baseline_data' = load_performance_data(files.baseline)
    /\ pc' = "check"
    /\ UNCHANGED <<files, chart, trend, summary, error>>

\* if not current_data or not baseline_data: sys.exit(1)
MainCheck ==
    /\ pc = "check"
    /\ pc' = IF ~Truthy(current_data) \/ ~Truthy(baseline_data)
             THEN "exit1" ELSE "chart"
    /\ UNCHANGED <<files, current_data, baseline_data, chart, trend, summary, error>>

MainChart ==
    /\ pc = "chart"
    /\ LET r == IF HasGet(current_data) /\ HasGet(baseline_data)
                THEN create_benchmark_comparison_chart(current_data.value,
                                                       baseline_data.value)
                ELSE [raised |-> "AttributeError", value |-> EmptyChart]
       IN IF r.raised # "none"
          THEN /\ pc' = "crashed"
               /\ error' = r.raised
               /\ UNCHANGED chart
          ELSE /\ pc' = "trend"
               /\ chart' = r.value
               /\ UNCHANGED error
    /\ UNCHANGED <<files, current_data, baseline_data, trend, summary>>

\* create_performance_trend_chart: the two scores of the fourth panel
MainTrend ==
    /\ pc = "trend"
    /\ LET s == IF HasGet(current_data) /\ HasGet(baseline_data)
                THEN Scores(current_data.value, baseline_data.value)
                ELSE [raised |-> "AttributeError", current_score |-> Rat(0, 1),
                      baseline_score |-> Rat(0, 1)]
       IN IF s.raised # "none"
          THEN /\ pc' = "crashed"
               /\ error' = s.raised
               /\ UNCHANGED trend
          ELSE /\ pc' = "resource"
               /\ trend' = [current_score |-> s.current_score,
                            baseline_score |-> s.baseline_score]
               /\ UNCHANGED error
    /\ UNCHANGED <<files, current_data, baseline_data, chart, summary>>

\* create_resource_usage_chart reads performance_metrics only
MainResource ==
    /\ pc = "resource"
    /\ pc' = "summary"
    /\ UNCHANGED <<files, current_data, baseline_data, chart, trend, summary, error>>

MainSummary ==
    /\ pc = "summary"
    /\ LET r == IF HasGet(current_data) /\ HasGet(baseline_data)
                THEN create_summary_report(current_data.value, baseline_data.value)
                ELSE [raised |-> "AttributeError", value |-> EmptySummary]
       IN IF r.raised # "none"
          THEN /\ pc' = "crashed"
               /\ error' = r.raised
               /\ UNCHANGED summary
          ELSE /\ pc' = "done"
               /\ summary' = r.value
               /\ UNCHANGED error
    /\ UNCHANGED <<files, current_data, baseline_data, chart, trend>>

Next ==
    \/ MainLoad
    \/ MainCheck
    \/ MainChart
    \/ MainTrend
    \/ MainResource
    \/ MainSummary

\* a second invocation of create_benchmark_comparison_chart on the same data
MainChartAgain ==
    /\ pc = "done"
    /\ LET r == IF HasGet(current_data) /\ HasGet(baseline_data)
                THEN create_benchmark_comparison_chart(current_data.value,
                                                       baseline_data.value)
                ELSE [raised |-> "AttributeError", value |-> EmptyChart]
       IN IF r.raised # "none"
          THEN /\ pc' = "crashed"
               /\ error' = r.raised
               /\ UNCHANGED chart
          ELSE /\ pc' = "chart_again"
               /\ chart' = r.value
               /\ UNCHANGED error
    /\ UNCHANGED <<files, current_data, baseline_data, trend, summary>>

\* a second invocation of create_summary_report on the same data
MainSummaryAgain ==
    /\ pc = "chart_again"
    /\ LET r == IF HasGet(current_data) /\ HasGet(baseline_data)
                THEN create_summary_report(current_data.value, baseline_data.value)
                ELSE [raised |-> "AttributeError", value |-> EmptySummary]
       IN IF r.raised # "none"
          THEN /\ pc' = "crashed"
               /\ error' = r.raised
               /\ UNCHANGED summary
          ELSE /\ pc' = "done_again"
               /\ summary' = r.value
               /\ UNCHANGED error
    /\ UNCHANGED <<files, current_data, baseline_data, chart, trend>>

\* main followed by a second invocation of the two comparing routines
NextTwice ==
    \/ MainLoad
    \/ MainCheck
    \/ MainChart
    \/ MainTrend
    \/ MainResource
    \/ MainSummary
    \/ MainChartAgain
    \/ MainSummaryAgain

Spec == Init /\ [][Next]_vars

SpecTwice == InitNames /\ [][NextTwice]_vars

SpecNames == InitNames /\ [][Next]_vars

SpecScore == InitScore /\ [][Next]_vars

SpecMalformed == InitMalformed /\ [][Next]_vars

-----------------------------------------------------------------------------
(* Properties.  The comparison is restated on the input lists with sets of  *)
(* indices, independently of the loops above.                               *)

\* the benchmarks list of a loaded document
BenchmarksOf(data) ==
    IF data.type = "dict" THEN Get(data.value, "benchmarks", <<>>) ELSE <<>>

\* the timing of an entry as an integer, when it is one (absent reads as 0)
HasNumericNs(b) == "ns_per_op" \notin DOMAIN b \/ IsNumber(b.ns_per_op)

NsOf(b) == IF "ns_per_op" \in DOMAIN b THEN b.ns_per_op.num ELSE 0

\* the baseline entries whose name is identical to that of current entry i
SameName(cb, bb, i) ==
    {j \in 1..Len(bb) : /\ "name" \in DOMAIN cb[i]
                        /\ "name" \in DOMAIN bb[j]
                        /\ bb[j].name = cb[i].name}

LastOf(S) == CHOOSE j \in S : \A k \in S : k <= j

\* the timing of the baseline entry that current entry i is matched with
BaselineNs(cb, bb, i) == NsOf(bb[LastOf(SameName(cb, bb, i))])

\* the current entries that have a name-matched baseline entry
MatchedIdx(cb, bb) == {i \in 1..Len(cb) : SameName(cb, bb, i) # {}}

\* the matched entries with a positive timing on both sides
ComparedIdx(cb, bb) ==
    {i \in MatchedIdx(cb, bb) :
        /\ HasNumericNs(cb[i])
        /\ HasNumericNs(bb[LastOf(SameName(cb, bb, i))])
        /\ NsOf(cb[i]) > 0
        /\ BaselineNs(cb, bb, i) > 0}

\* change_pct > t and change_pct < -t for entry i, in exact arithmetic
ChangeAbove(cb, bb, i, t) ==
    100 * (NsOf(cb[i]) - BaselineNs(cb, bb, i)) > t * BaselineNs(cb, bb, i)

ChangeBelow(cb, bb, i, t) ==
    100 * (NsOf(cb[i]) - BaselineNs(cb, bb, i)) < (0 - t) * BaselineNs(cb, bb, i)

ChangeIs(cb, bb, i, p) ==
    100 * (NsOf(cb[i]) - BaselineNs(cb, bb, i)) = p * BaselineNs(cb, bb, i)

ChartDone == pc \in {"trend", "resource", "summary", "done"}

Thresholds == {1, 5, 10}

\* C1 (as stated): for every threshold t, the regressions are the compared
\* pairs with change_pct > t and the improvements those with change_pct < -t.
C1_ClassificationForEveryThreshold ==
    pc = "done" =>
      LET cb == BenchmarksOf(current_data)
          bb == BenchmarksOf(baseline_data)
      IN \A t \in Thresholds :
           /\ summary.regressions =
                Cardinality({i \in ComparedIdx(cb, bb) : ChangeAbove(cb, bb, i, t)})
           /\ summary.improvements =
                Cardinality({i \in ComparedIdx(cb, bb) : ChangeBelow(cb, bb, i, t)})

\* C1 (amended): with the threshold fixed at 5, a compared pair is counted as
\* a regression iff change_pct > 5, as an improvement iff change_pct < -5, and
\* as neither otherwise; no pair is counted twice.
C1_ClassificationAtThreshold5 ==
    pc = "done" =>
      LET cb == BenchmarksOf(current_data)
          bb == BenchmarksOf(baseline_data)
          reg == {i \in ComparedIdx(cb, bb) : ChangeAbove(cb, bb, i, 5)}
          imp == {i \in ComparedIdx(cb, bb) : ChangeBelow(cb, bb, i, 5)}
      IN /\ summary.regressions = Cardinality(reg)
         /\ summary.improvements = Cardinality(imp)
         /\ reg \cap imp = {}
         /\ summary.regressions + summary.improvements
              <= Cardinality(ComparedIdx(cb, bb))

\* a finished run with one regression, one improvement
C1_Witness ==
    /\ pc = "done"
    /\ summary.regressions = 1
    /\ summary.improvements = 1

\* C2: a compared pair whose change_pct is exactly +5 or exactly -5 is
\* counted neither as a regression nor as an improvement; current 210 against
\* baseline 200 gives change_pct 5 (improvement -5 in the chart) and no count.
C2_BoundaryIsUnchanged ==
    pc = "done" =>
      LET cb == BenchmarksOf(current_data)
          bb == BenchmarksOf(baseline_data)
          boundary == {i \in ComparedIdx(cb, bb) :
                          ChangeIs(cb, bb, i, 5) \/ ChangeIs(cb, bb, i, -5)}
      IN /\ summary.regressions + summary.improvements
              <= Cardinality(ComparedIdx(cb, bb) \ boundary)
         /\ (/\ cb = <<BenchmarkEntry(<<"A">>, Num(210))>>
             /\ bb = <<BenchmarkEntry(<<"A">>, Num(200))>>)
            => /\ Len(chart.improvements) = 1
               /\ RatEq(chart.improvements[1], Rat(-5, 1))
               /\ summary.sizes = <<0, 0, 1>>

\* a finished run that compared a pair at exactly +5% and one at exactly -5%
C2_Witness ==
    /\ pc = "done"
    /\ LET cb == BenchmarksOf(current_data)
           bb == BenchmarksOf(baseline_data)
       IN /\ \E i \in ComparedIdx(cb, bb) : ChangeIs(cb, bb, i, 5)
          /\ \E i \in ComparedIdx(cb, bb) : ChangeIs(cb, bb, i, -5)

\* C3: a name-matched pair with a timing <= 0 (or absent) on either side
\* yields no chart entry and no regression or improvement, and the division
\* by baseline_ns is never evaluated with baseline_ns <= 0.
C3_NonPositivePairsSkipped ==
    /\ error # "ZeroDivisionError"
    /\ ChartDone =>
         LET cb == BenchmarksOf(current_data)
             bb == BenchmarksOf(baseline_data)
         IN /\ Len(chart.benchmark_names) = Cardinality(ComparedIdx(cb, bb))
            /\ \A k \in 1..Len(chart.baseline_values) :
                  chart.baseline_values[k] > 0 /\ chart.current_values[k] > 0
            /\ pc = "done" =>
                 summary.regressions + summary.improvements
                   <= Cardinality(ComparedIdx(cb, bb))

\* a finished run in which one matched pair was skipped for its timing and
\* another was compared
C3_Witness ==
    /\ pc = "done"
    /\ LET cb == BenchmarksOf(current_data)
           bb == BenchmarksOf(baseline_data)
       IN /\ MatchedIdx(cb, bb) \ ComparedIdx(cb, bb) # {}
          /\ ComparedIdx(cb, bb) # {}

\* C4: a chart entry or a count arises only from a current entry whose name
\* is identical to the name of some baseline entry; any other current entry is
\* skipped.
C4_ExactNameMatching ==
    ChartDone =>
      LET cb == BenchmarksOf(current_data)
          bb == BenchmarksOf(baseline_data)
      IN /\ Len(chart.benchmark_names) <= Cardinality(MatchedIdx(cb, bb))
         /\ \A k \in 1..Len(chart.benchmark_names) :
               \E i \in MatchedIdx(cb, bb) :
                  /\ chart.benchmark_names[k] = ReplaceBenchmark(cb[i].name)
                  /\ chart.current_values[k] = NsOf(cb[i])
                  /\ chart.baseline_values[k] = BaselineNs(cb, bb, i)
         /\ pc = "done" =>
              summary.regressions + summary.improvements
                <= Cardinality(MatchedIdx(cb, bb))

\* a finished run with a matched entry and with an entry "x" that is skipped
\* although the baseline has "X" or "X "
C4_Witness ==
    /\ pc = "done"
    /\ LET cb == BenchmarksOf(current_data)
           bb == BenchmarksOf(baseline_data)
       IN /\ MatchedIdx(cb, bb) # {}
          /\ Len(chart.benchmark_names) = 1
          /\ \E i \in 1..Len(cb) :
                /\ cb[i].name = <<"x">>
                /\ i \notin MatchedIdx(cb, bb)
                /\ \E j \in 1..Len(bb) : bb[j].name \in {<<"X">>, <<"X", " ">>}

NamesDistinct(b) ==
    \A i, j \in 1..Len(b) :
        (i # j /\ "name" \in DOMAIN b[i] /\ "name" \in DOMAIN b[j])
            => b[i].name # b[j].name

MinOf(a, b) == IF a <= b THEN a ELSE b

\* C5 (as stated): the number of chart entries is at most
\* min(|current|, |baseline|), also when a name occurs more than once.
C5_AtMostMinOfLengths ==
    ChartDone =>
      Len(chart.benchmark_names)
        <= MinOf(Len(BenchmarksOf(current_data)), Len(BenchmarksOf(baseline_data)))

\* C5 (amended): the number of chart entries is at most |current|, and at
\* most min(|current|, |baseline|) when no name occurs twice in the current
\* run.
C5_AtMostMinWhenCurrentNamesDistinct ==
    ChartDone =>
      LET cb == BenchmarksOf(current_data)
          bb == BenchmarksOf(baseline_data)
      IN /\ Len(chart.benchmark_names) <= Len(cb)
         /\ NamesDistinct(cb) => Len(chart.benchmark_names) <= MinOf(Len(cb), Len(bb))

\* a finished run whose current names are distinct and all compared
C5_Witness ==
    /\ pc = "done"
    /\ LET cb == BenchmarksOf(current_data)
           bb == BenchmarksOf(baseline_data)
       IN /\ NamesDistinct(cb)
          /\ Len(cb) = 2
          /\ Len(bb) = 2
          /\ Len(chart.benchmark_names) = 2

\* C6: an entry without a name or with a non-numeric timing is left out and
\* does not abort the run.
C6_MalformedEntriesDoNotAbort ==
    /\ pc # "crashed"
    /\ error = "none"

ScoresDone == pc \in {"resource", "summary", "done"}

InRange(r) == r.den > 0 /\ 0 <= r.num /\ r.num <= 100 * r.den

\* C7: every computed score lies in [0, 100].
C7_ScoreInRange ==
    /\ ScoresDone => InRange(trend.current_score) /\ InRange(trend.baseline_score)
    /\ pc = "done" =>
         InRange(summary.current_score) /\ InRange(summary.baseline_score)

\* a finished run whose current average is above 100000 ns: the floor applies
C7_Witness ==
    /\ pc = "done"
    /\ LET cb == BenchmarksOf(current_data)
       IN \E i \in 1..Len(cb) : NsOf(cb[i]) = 250000
    /\ summary.current_score.num = 0

PositiveIdx(b) == {i \in 1..Len(b) : HasNumericNs(b[i]) /\ NsOf(b[i]) > 0}

\* C8: a run without any timing > 0 (no benchmarks key, empty list, only
\* zero, negative or absent timings) scores exactly 0, and no error is raised.
C8_NoPositiveTimingScoresZero ==
    /\ error = "none"
    /\ pc # "crashed"
    /\ ScoresDone =>
         /\ PositiveIdx(BenchmarksOf(current_data)) = {}
              => trend.current_score.num = 0
         /\ PositiveIdx(BenchmarksOf(baseline_data)) = {}
              => trend.baseline_score.num = 0
    /\ pc = "done" =>
         /\ PositiveIdx(BenchmarksOf(current_data)) = {}
              => summary.current_score.num = 0
         /\ PositiveIdx(BenchmarksOf(baseline_data)) = {}
              => summary.baseline_score.num = 0

\* a finished run whose current list is not empty and has no timing > 0
C8_Witness ==
    /\ pc = "done"
    /\ Len(BenchmarksOf(current_data)) = 2
    /\ PositiveIdx(BenchmarksOf(current_data)) = {}
    /\ "benchmarks" \notin DOMAIN baseline_data.value
    /\ summary.current_score.num = 0
    /\ summary.baseline_score.num = 0

RECURSIVE SumOver(_, _)
SumOver(b, S) ==
    IF S = {} THEN 0
    ELSE LET i == CHOOSE k \in S : TRUE IN NsOf(b[i]) + SumOver(b, S \ {i})

\* clamp(0, 100, 100 - avg_ns/1000) with avg_ns the mean over the timings > 0
ExpectedScore(b) ==
    LET n == Cardinality(PositiveIdx(b))
        total == SumOver(b, PositiveIdx(b))
    IN IF 100000 * n - total < 0 THEN Rat(0, 1)
       ELSE IF 100000 * n - total > 100000 * n THEN Rat(100, 1)
       ELSE Rat(100000 * n - total, 1000 * n)

\* avg_ns of a is at most avg_ns of b
AvgAtMost(a, b) ==
    SumOver(a, PositiveIdx(a)) * Cardinality(PositiveIdx(b))
      <= SumOver(b, PositiveIdx(b)) * Cardinality(PositiveIdx(a))

\* C9: with at least one timing > 0 the score is
\* clamp(0, 100, 100 - avg_ns/1000), avg_ns being the mean of the timings > 0
\* only; a run with a lower average never has the lower score.
C9_ScoreIsClampedMeanOfPositives ==
    ScoresDone =>
      LET cb == BenchmarksOf(current_data)
          bb == BenchmarksOf(baseline_data)
      IN /\ PositiveIdx(cb) # {} => RatEq(trend.current_score, ExpectedScore(cb))
         /\ PositiveIdx(bb) # {} => RatEq(trend.baseline_score, ExpectedScore(bb))
         /\ (PositiveIdx(cb) # {} /\ PositiveIdx(bb) # {} /\ AvgAtMost(cb, bb))
              => RatLe(trend.baseline_score, trend.current_score)
         /\ pc = "done" =>
              /\ RatEq(summary.current_score, trend.current_score)
              /\ RatEq(summary.baseline_score, trend.baseline_score)

\* a finished run with a non-positive and a positive current timing, a score
\* strictly between 0 and 100, and a strictly worse baseline
C9_Witness ==
    /\ pc = "done"
    /\ LET cb == BenchmarksOf(current_data)
           bb == BenchmarksOf(baseline_data)
       IN /\ PositiveIdx(cb) # {}
          /\ PositiveIdx(cb) # 1..Len(cb)
          /\ PositiveIdx(bb) # {}
          /\ RatLt(Rat(0, 1), summary.baseline_score)
          /\ RatLt(summary.baseline_score, summary.current_score)
          /\ RatLt(summary.current_score, Rat(100, 1))

\* C10: unchanged = |current| - regressions - improvements, so every skipped
\* current entry is counted as unchanged; current [A:100, B:100] against
\* baseline [A:100] compares one pair and has unchanged = 2.
C10_UnchangedCountsSkippedEntries ==
    pc = "done" =>
      LET cb == BenchmarksOf(current_data)
          bb == BenchmarksOf(baseline_data)
          reg == {i \in ComparedIdx(cb, bb) : ChangeAbove(cb, bb, i, 5)}
          imp == {i \in ComparedIdx(cb, bb) : ChangeBelow(cb, bb, i, 5)}
      IN /\ summary.sizes[3] = Len(cb) - Cardinality(reg) - Cardinality(imp)
         /\ summary.sizes[3] >= Len(cb) - Cardinality(ComparedIdx(cb, bb))
         /\ (/\ cb = <<BenchmarkEntry(<<"A">>, Num(100)),
                       BenchmarkEntry(<<"B">>, Num(100))>>
             /\ bb = <<BenchmarkEntry(<<"A">>, Num(100))>>)
            => /\ Len(chart.benchmark_names) = 1
               /\ summary.sizes = <<0, 0, 2>>

\* the finished run of current [A:100, B:100] against baseline [A:100]
C10_Witness ==
    /\ pc = "done"
    /\ BenchmarksOf(current_data) = <<BenchmarkEntry(<<"A">>, Num(100)),
                                      BenchmarkEntry(<<"B">>, Num(100))>>
    /\ BenchmarksOf(baseline_data) = <<BenchmarkEntry(<<"A">>, Num(100))>>
    /\ summary.sizes[3] = 2

Unloadable(file) == file.content # "json"

\* C11: when a document cannot be loaded, the load yields None without
\* raising, no chart, score or summary is computed, and the process ends with
\* exit status 1.
C11_LoadFailureAbortsBeforeComparison ==
    (Unloadable(files.current) \/ Unloadable(files.baseline)) =>
        /\ pc \in {"load", "check", "exit1"}
        /\ error = "none"
        /\ chart = EmptyChart
        /\ summary = EmptySummary
        /\ trend = [current_score |-> Rat(0, 1), baseline_score |-> Rat(0, 1)]
        /\ pc # "load" =>
             /\ Unloadable(files.current) => current_data = NoneValue
             /\ Unloadable(files.baseline) => baseline_data = NoneValue

\* the process has exited with status 1 because only the baseline document
\* could not be loaded
C11_Witness ==
    /\ pc = "exit1"
    /\ Unloadable(files.baseline)
    /\ ~Unloadable(files.current)
    /\ Len(BenchmarksOf(current_data)) = 2

\* C12: a document that loads, also one with an empty benchmarks list or
\* with no key at all, is not treated as a load failure: the run does not
\* exit with status 1.
C12_LoadedDocumentIsNotAFailure ==
    (~Unloadable(files.current) /\ ~Unloadable(files.baseline)) => pc # "exit1"

IdxSeq(S) ==
    CHOOSE f \in [1..Cardinality(S) -> S] :
        \A a, b \in 1..Cardinality(S) : a < b => f[a] < f[b]

\* C14: with several baseline entries of one name the run does not fail, and
\* every current entry of that name is compared with the last of them: the
\* chart's baseline values and the summary's counts are those of the last
\* entry.
C14_LastBaselineEntryWins ==
    /\ pc # "crashed"
    /\ ChartDone =>
         LET cb == BenchmarksOf(current_data)
             bb == BenchmarksOf(baseline_data)
             idx == IdxSeq(ComparedIdx(cb, bb))
         IN /\ Len(chart.baseline_values) = Len(idx)
            /\ \A k \in 1..Len(idx) :
                  LET same == SameName(cb, bb, idx[k])
                      last == CHOOSE j \in same : \A l \in same : l <= j
                  IN /\ chart.baseline_values[k] = NsOf(bb[last])
                     /\ RatEq(chart.improvements[k],
                              Rat((NsOf(bb[last]) - NsOf(cb[idx[k]])) * 100,
                                  NsOf(bb[last])))
            /\ pc = "done" =>
                 /\ summary.regressions =
                      Cardinality({i \in ComparedIdx(cb, bb) : ChangeAbove(cb, bb, i, 5)})
                 /\ summary.improvements =
                      Cardinality({i \in ComparedIdx(cb, bb) : ChangeBelow(cb, bb, i, 5)})

\* a finished run whose baseline is [X:100, X:200]: the current X:100 is
\* compared with 200 and counted as an improvement
C14_Witness ==
    /\ pc = "done"
    /\ BenchmarksOf(baseline_data) = <<BenchmarkEntry(<<"X">>, Num(100)),
                                       BenchmarkEntry(<<"X">>, Num(200))>>
    /\ BenchmarksOf(current_data) = <<BenchmarkEntry(<<"X">>, Num(100))>>
    /\ chart.baseline_values = <<200>>
    /\ summary.improvements = 1

\* s is a subsequence of t
IsSubsequence(s, t) ==
    \E f \in [1..Len(s) -> 1..Len(t)] :
        /\ \A a, b \in 1..Len(s) : a < b => f[a] < f[b]
        /\ \A a \in 1..Len(s) : t[f[a]] = s[a]

CurrentNames(cb) == [i \in 1..Len(cb) |-> cb[i].name]

\* C15 (as stated): the chart's names are a subsequence of the names of the
\* current entries.
C15_NamesAreSubsequenceOfCurrentNames ==
    ChartDone =>
      IsSubsequence(chart.benchmark_names, CurrentNames(BenchmarksOf(current_data)))

\* C15 (amended): the chart's entries are those of the compared current
\* entries in the order of the current run, each name with every occurrence
\* of "Benchmark" removed; names and timings are subsequences of the current
\* run's (stripped) names and timings.
C15_EntriesFollowCurrentOrder ==
    ChartDone =>
      LET cb == BenchmarksOf(current_data)
          bb == BenchmarksOf(baseline_data)
          idx == IdxSeq(ComparedIdx(cb, bb))
      IN /\ chart.benchmark_names =
              [k \in 1..Len(idx) |-> ReplaceBenchmark(cb[idx[k]].name)]
         /\ chart.current_values = [k \in 1..Len(idx) |-> NsOf(cb[idx[k]])]
         /\ IsSubsequence(chart.benchmark_names,
                          [i \in 1..Len(cb) |-> ReplaceBenchmark(cb[i].name)])
         /\ IsSubsequence(chart.current_values, [i \in 1..Len(cb) |-> NsOf(cb[i])])

\* a finished run that compared two current entries of different names and
\* timings, listed in the baseline in the opposite order
C15_Witness ==
    /\ pc = "done"
    /\ BenchmarksOf(current_data) = <<BenchmarkEntry(<<"Benchmark", "X">>, Num(200)),
                                      BenchmarkEntry(<<"x">>, Num(100))>>
    /\ BenchmarksOf(baseline_data) = <<BenchmarkEntry(<<"x">>, Num(100)),
                                       BenchmarkEntry(<<"Benchmark", "X">>, Num(100))>>
    /\ chart.benchmark_names = <<<<"X">>, <<"x">>>>
    /\ chart.current_values = <<200, 100>>

\* C16: the three counts are >= 0 and add up to |current|; regressions and
\* improvements together never exceed |current|; with an empty current run
\* there is no chart entry and the three counts are 0.
C16_CountsPartitionCurrent ==
    pc = "done" =>
      LET cb == BenchmarksOf(current_data) IN
      /\ summary.sizes[1] = summary.regressions
      /\ summary.sizes[2] = summary.improvements
      /\ \A k \in 1..3 : summary.sizes[k] >= 0
      /\ summary.sizes[1] + summary.sizes[2] + summary.sizes[3] = Len(cb)
      /\ summary.regressions + summary.improvements <= Len(cb)
      /\ cb = <<>> => (chart.benchmark_names = <<>> /\ summary.sizes = <<0, 0, 0>>)

\* the finished run of current [] against baseline [A:100]
C16_Witness ==
    /\ pc = "done"
    /\ "benchmarks" \in DOMAIN current_data.value
    /\ BenchmarksOf(current_data) = <<>>
    /\ BenchmarksOf(baseline_data) = <<BenchmarkEntry(<<"A">>, Num(100))>>
    /\ summary.sizes = <<0, 0, 0>>
    /\ summary.current_score.num = 0

\* C17: the chart and the summary select the same pairs, and the chart's
\* improvement percentage is the negation of the summary's change percentage:
\* the summary counts as regressions exactly the chart entries below -5 and
\* as improvements exactly those above 5.
C17_ChartAndSummaryAgree ==
    /\ ChartDone =>
         \A k \in 1..Len(chart.improvements) :
            LET change == ChangePct(chart.current_values[k], chart.baseline_values[k])
            IN RatEq(chart.improvements[k], Rat(0 - change.num, change.den))
    /\ pc = "done" =>
         /\ summary.regressions =
              Cardinality({k \in 1..Len(chart.improvements) :
                              RatLt(chart.improvements[k], Rat(-5, 1))})
         /\ summary.improvements =
              Cardinality({k \in 1..Len(chart.improvements) :
                              RatLt(Rat(5, 1), chart.improvements[k])})
         /\ summary.sizes[3] - (summary.total_benchmarks - Len(chart.improvements)) =
              Cardinality({k \in 1..Len(chart.improvements) :
                              /\ ~RatLt(chart.improvements[k], Rat(-5, 1))
                              /\ ~RatLt(Rat(5, 1), chart.improvements[k])})

\* a finished run with a chart entry below -5 and one at exactly -5
C17_Witness ==
    /\ pc = "done"
    /\ Len(chart.improvements) = 2
    /\ RatLt(chart.improvements[1], Rat(-5, 1))
    /\ RatEq(chart.improvements[2], Rat(-5, 1))
    /\ summary.sizes = <<1, 0, 1>>

====
